---------------------------- MODULE Spec2Model ----------------------------
(***************************************************************************)
(* Model of the overlay-risk scripts:                                      *)
(*   scripts/influx_metrics.py        fixed-window TWAP pipeline ("sushi") *)
(*   scripts/influx_metrics_univ3.py  dynamic-window TWAP pipeline         *)
(*   scripts/influx_univ3_1m.py       ingestion of the cumulatives         *)
(*                                                                         *)
(* A dataframe is a sequence of rows; a row keeps its index label `idx`    *)
(* (0-based, as pandas numbers it), `_time` in whole seconds and `_value`. *)
(* The model follows one run of main(): for each quote the series is       *)
(* fetched, the TWAPs and the statistics are computed and one point per    *)
(* field is written to the sink.                                           *)
(***************************************************************************)
EXTENDS Integers, Sequences, FiniteSets, TLC

VARIABLES
    variant,    \* which script runs: "sushi" (influx_metrics.py) or "univ3"
    params,     \* get_params(): window, period, tolerance, points, alpha, n
    vexp,       \* binary exponent of the unit of the stored `_value`s
    qi,         \* position of main's loop in `quotes` (Len+1: loop finished)
    pc,         \* position of main inside the loop body
    timestamp,  \* main's local `timestamp`
    pcs,        \* main's local `pcs`: the two dataframes of the quote
    twaps,      \* main's local `twaps`: one sample list per dataframe
    stats,      \* main's local `stats`: one record per sample list
    wi,         \* position of the write loop `for i, stat in enumerate(stats)`
    sink,       \* points written through write_api.write, in order
    log,        \* exceptions logged by main's except clause, in order
    closed,     \* client.close() was called
    ipc,        \* position of influx_univ3_1m.py in get_uni_cumulatives
    iq,         \* position of its loop `for q in quotes`
    fs,         \* the retry loop of find_start for the quote
    reads,      \* the retry loop of get_b_t of every read_cumulatives call
    item,       \* position of index_pair's loop over the results of the calls
    wrs,        \* the retry loop of the write of every item
    written     \* points the index_pair call in progress has written, in order

\* the state of the metrics scripts and that of the ingestion script
metrics == <<variant, params, vexp, qi, pc, timestamp, pcs, twaps, stats, wi,
             sink, log, closed>>

ingest == <<ipc, iq, fs, reads, item, wrs, written>>

vars == <<variant, params, vexp, qi, pc, timestamp, pcs, twaps, stats, wi, sink,
          log, closed, ipc, iq, fs, reads, item, wrs, written>>

-----------------------------------------------------------------------------
(* Bounds of the model *)

\* longest series a fetch returns
MaxLen == 5

\* gaps in seconds between consecutive rows of a fetched series
Gaps == {1, 2}

\* increments of the mantissa of `_value` between consecutive rows; the
\* increments of one series alternate between two of them
Steps == {-1, 2}

-----------------------------------------------------------------------------
(* Numbers *)

\* Fixed point resolution of price cumulatives
PC_RESOLUTION == 112

\* binary exponents of the unit of `_value`: a price cumulative is a number
\* with PC_RESOLUTION fractional bits, so one unit of price is 2^112
ValueExps == {0, PC_RESOLUTION}

\* NaN in a column of non-negative scores or of positions
NaN == -1

Abs(x) == IF x < 0 THEN -x ELSE x

Range(s) == {s[i] : i \in DOMAIN s}

RECURSIVE SelectIdx(_, _, _)
\* the positions i of 1..n, ascending, for which keep[i] holds
SelectIdx(keep, i, n) ==
    IF i > n THEN <<>>
    ELSE IF keep[i] THEN <<i>> \o SelectIdx(keep, i + 1, n)
    ELSE SelectIdx(keep, i + 1, n)

-----------------------------------------------------------------------------
(* influx_metrics_univ3.py: dynamic-window TWAP *)

\* df[i] of dynamic_window at the r-th row: |(_time - _time.shift(i)) - window|,
\* NaN on the first i rows, which shift(i) leaves without a lagged time
LagScore(rows, r, i, window) ==
    IF r - i < 1 THEN NaN
    ELSE Abs((rows[r]._time - rows[r - i]._time) - window)

\* the frame after the loop of dynamic_window: columns 1..max_rows added
ScoredRows(rows, max_rows, window) ==
    [r \in 1..Len(rows) |->
        [rows[r] EXCEPT !.scores =
            [i \in 1..max_rows |-> LagScore(rows, r, i, window)]]]

RECURSIVE IdxMinScan(_, _, _)
\* scan of idxmin over the columns i..Len(scores), `best` the label of the
\* minimum seen so far (NaN: none yet); NaN entries are skipped and a later
\* column replaces the minimum only when it is strictly smaller
IdxMinScan(scores, i, best) ==
    IF i > Len(scores) THEN best
    ELSE IF scores[i] = NaN THEN IdxMinScan(scores, i + 1, best)
    ELSE IF best = NaN \/ scores[i] < scores[best]
         THEN IdxMinScan(scores, i + 1, i)
         ELSE IdxMinScan(scores, i + 1, best)

\* a faulty idxmin, which keeps the last of several equal minima
idxmin_last(scores) ==
    LET valid == {i \in DOMAIN scores : scores[i] # NaN}
    IN  IF valid = {} THEN NaN
        ELSE CHOOSE i \in valid :
                \A j \in valid :
                    scores[i] < scores[j] \/ (scores[i] = scores[j] /\ i >= j)

\* DataFrame.idxmin(axis="columns") of one row: the label of the first
\* column holding the row's minimum, NaN for a row that is all NaN
idxmin(scores) == IdxMinScan(scores, 1, NaN)

\* a faulty dropna, as dropna(how='all') would be: it keeps every row that
\* has a score at all
dropna_all(rows) ==
    LET keep == [r \in 1..Len(rows) |->
                    \E i \in DOMAIN rows[r].scores : rows[r].scores[i] # NaN]
        idx == SelectIdx(keep, 1, Len(rows))
    IN  [k \in 1..Len(idx) |-> rows[idx[k]]]

\* DataFrame.dropna(): the rows without a NaN in any column
dropna(rows) ==
    LET keep == [r \in 1..Len(rows) |->
                    \A i \in DOMAIN rows[r].scores : rows[r].scores[i] # NaN]
        idx == SelectIdx(keep, 1, Len(rows))
    IN  [k \in 1..Len(idx) |-> rows[idx[k]]]

\* what dynamic_window leaves in the caller's dataframe, which it changes in
\* place: the score columns added, the rows with a NaN dropped
dynamic_window_inplace(rows, max_rows, window) ==
    dropna(ScoredRows(rows, max_rows, window))

\* the dataframe dynamic_window returns: the rows kept by dropna, joined on
\* the index label with min_df, the idxmin of every row of the scored frame,
\* so that a row gets the idxmin of its own scores
dynamic_window(rows, max_rows, window) ==
    LET kept == dropna(ScoredRows(rows, max_rows, window))
    IN  [k \in 1..Len(kept) |->
            [idx |-> kept[k].idx, _time |-> kept[k]._time,
             _value |-> kept[k]._value,
             dynamic_window |-> idxmin(kept[k].scores)]]

\* Series.iloc[k] is defined for -len <= k < len
ILocOK(len, k) == -len <= k /\ k < len

\* Series.iloc[k]: a negative k counts from the end of the series
ILoc(values, k) ==
    IF k >= 0 THEN values[k + 1] ELSE values[Len(values) + k + 1]

\* delta_window for the row at position loc (0-based) of the frame:
\* values.iloc[loc] - values.iloc[loc-lb]
delta_window(loc, values, lookback) ==
    ILoc(values, loc) - ILoc(values, loc - lookback[loc + 1])

\* a faulty max_rows: ceil(window/period + 1) * 2
MaxRowsOf_ceil(window, period) == 2 * ((window + (2 * period) - 1) \div period)

\* max_rows of get_twap after int(): ((window/period)+1) * 2, truncated
MaxRowsOf(window, period) == (2 * (window + period)) \div period

\* np.power(1.0001, x) for the rate x = n/d, kept as its exponent
Pow10001(n, d) == [pow |-> TRUE, n |-> n, d |-> d]

\* 1/twaps of a power of 1.0001
Reciprocal(tw) == [tw EXCEPT !.n = -tw.n]

\* a faulty comparison, twap >= 0
TwapPositive_or_zero(tw) == IF tw.pow THEN TRUE ELSE tw.n >= 0

\* twap > 0 as numpy decides it: a power of 1.0001 is positive, a decoded
\* amount is compared as the number it is
TwapPositive(tw) == IF tw.pow THEN TRUE ELSE tw.n > 0

\* df[df['twap'] > 0]
PositiveTwaps(samples) ==
    LET keep == [k \in 1..Len(samples) |-> TwapPositive(samples[k].twap)]
        idx == SelectIdx(keep, 1, Len(samples))
    IN  [k \in 1..Len(idx) |-> samples[idx[k]]]

\* a faulty filter, whose lower limit is one second too low
WindowFilter_wide(dts, window, tolerance) ==
    LET upper_limit == window + tolerance
        lower_limit == window - tolerance - 1
        keep == [k \in 1..Len(dts) |->
                    dts[k] > 0 /\ dts[k] <= upper_limit /\ dts[k] >= lower_limit]
    IN  SelectIdx(keep, 1, Len(dts))

\* pc[(pc['dt'] > 0)] then pc[(dt <= upper_limit) & (dt >= lower_limit)]
WindowFilter(dts, window, tolerance) ==
    LET upper_limit == window + tolerance
        lower_limit == window - tolerance
        keep == [k \in 1..Len(dts) |->
                    dts[k] > 0 /\ dts[k] <= upper_limit /\ dts[k] >= lower_limit]
    IN  SelectIdx(keep, 1, Len(dts))

\* get_twap of influx_metrics_univ3.py on the dataframe df: err names the
\* exception it raises ("" when it returns), twaps the rows it returns.
\* "EmptyFrame": no row is left by dynamic_window, and apply(axis=1) on the
\* empty frame returns a dataframe, which cannot be stored as the one column
\* 'dp' (a ValueError, or with older pandas the AttributeError of `.dt`);
\* "IndexError": iloc[loc-lb] reaches before the first row of the frame;
\* "KeyError": pc.loc[0, '_field'] on the frame the filters left empty
get_twap_univ3(df, p) ==
    LET max_rows == MaxRowsOf(p.window, p.period)
        frame  == dynamic_window(df.rows, max_rows, p.window)
        n      == Len(frame)
        lookback == [k \in 1..n |-> frame[k].dynamic_window]
        values == [k \in 1..n |-> frame[k]._value]
        times  == [k \in 1..n |-> frame[k]._time]
        inrange == \A k \in 1..n : ILocOK(n, (k - 1) - lookback[k])
    IN  IF n = 0 THEN [err |-> "EmptyFrame", twaps |-> <<>>]
        ELSE IF ~inrange THEN [err |-> "IndexError", twaps |-> <<>>]
        ELSE
          LET dp == [k \in 1..n |-> delta_window(k - 1, values, lookback)]
              dt == [k \in 1..n |-> delta_window(k - 1, times, lookback)]
              idx == WindowFilter(dt, p.window, p.tolerance)
          IN  IF Len(idx) = 0 THEN [err |-> "KeyError", twaps |-> <<>>]
              ELSE
                LET raw == [k \in 1..Len(idx) |->
                              Pow10001(dp[idx[k]], dt[idx[k]])]
                    tws == IF df._field = "tick_cumulative1"
                           THEN [k \in 1..Len(idx) |-> Reciprocal(raw[k])]
                           ELSE raw
                    out == [k \in 1..Len(idx) |->
                              [timestamp |-> times[idx[k]],
                               window |-> dt[idx[k]],
                               twap |-> tws[k]]]
                IN  [err |-> "", twaps |-> PositiveTwaps(out)]

-----------------------------------------------------------------------------
(* influx_metrics.py: fixed-window TWAP and the fixed-point decoder *)

\* A float is held as the exact number (n/d) * 2^s, d > 0: the stored
\* cumulatives are m * 2^vexp with a small mantissa m, so differences are
\* exact, and a quotient by a number of seconds is within 2^-53 of n/d,
\* which for the mantissas, the seconds and the amounts of this model (an
\* amount_in that is a power of two) rounds to the same integer as n/d.
\* An integer too large for a machine word is held as hi * 2^s + f, with
\* frac telling whether 0 < f < 2^s or f = 0.

\* a faulty min_periods: a window of two rows is taken for complete
min_periods_two(window) == 2

\* min_periods of rolling(window=window), which is not given: the window
min_periods(window) == window

\* the first row (1-based) of the rolling window that ends at the r-th row:
\* the window holds the last `window` rows, fewer at the start of the column
RollingFirst(r, window) == IF r - window + 1 < 1 THEN 1 ELSE r - window + 1

\* rolling(window=window).apply(lambda w: w[-1] - w[0]) of a column at the
\* r-th row: NaN while the window holds fewer than min_periods rows, else
\* the last minus the first row of the window
RollingDelta(col, r, window) ==
    IF r - RollingFirst(r, window) + 1 < min_periods(window)
    THEN [nan |-> TRUE, v |-> 0]
    ELSE [nan |-> FALSE, v |-> col[r] - col[RollingFirst(r, window)]]

\* rolling(window=window).apply(lambda w: w[-1]): the window's last row
RollingLast(col, r, window) ==
    IF r - RollingFirst(r, window) + 1 < min_periods(window)
    THEN [nan |-> TRUE, v |-> 0]
    ELSE [nan |-> FALSE, v |-> col[r]]

\* dp['_value'] / dt['_time'] of one row: NaN when either is NaN or both are
\* zero, infinite when only dt is zero
RateOf(dp, dt, s) ==
    IF dp.nan \/ dt.nan \/ (dp.v = 0 /\ dt.v = 0)
    THEN [nan |-> TRUE, inf |-> FALSE, n |-> 0, d |-> 1, s |-> s]
    ELSE IF dt.v = 0
    THEN [nan |-> FALSE, inf |-> TRUE, n |-> dp.v, d |-> 1, s |-> s]
    ELSE [nan |-> FALSE, inf |-> FALSE, n |-> dp.v, d |-> dt.v, s |-> s]

\* arr[np.logical_not(np.isnan(arr))]
NotNaN(arr) ==
    LET keep == [k \in 1..Len(arr) |-> ~arr[k].nan]
        idx == SelectIdx(keep, 1, Len(arr))
    IN  [k \in 1..Len(idx) |-> arr[idx[k]]]

\* int(x): the float x = (n/d) * 2^s truncated toward zero, as the integer
\* hi * 2^s + f (see above); needs 2^s >= d when s > 0
PyInt(x) ==
    LET a == Abs(x.n) \div x.d
        b == Abs(x.n) % x.d
        fr == (b # 0) /\ (x.s > 0)
    IN  IF x.n >= 0 THEN [hi |-> a, frac |-> fr, s |-> x.s]
        ELSE IF fr THEN [hi |-> (-a) - 1, frac |-> TRUE, s |-> x.s]
        ELSE [hi |-> -a, frac |-> FALSE, s |-> x.s]

\* a faulty shift, which rounds toward zero
ShiftRight_trunc(x, k) ==
    IF k >= 31 THEN 0
    ELSE IF x >= 0 THEN x \div (2 ^ k) ELSE -((-x) \div (2 ^ k))

\* x >> k of an integer x of the model, |x| < 2^31: the floor of x / 2^k,
\* which for k >= 31 is 0, or -1 for a negative x
ShiftRight(x, k) ==
    IF k >= 31 THEN (IF x < 0 THEN -1 ELSE 0) ELSE x \div (2 ^ k)

\* X >> k of the integer X = hi * 2^s + f, for k >= s
RShift(X, k) == ShiftRight(X.hi, k - X.s)

\* one element of compute_amount_out: int(twap_112[i] * amount_in) >> PC_RESOLUTION
AmountOut(rate, amt) ==
    RShift(PyInt([rate EXCEPT !.n = rate.n * amt]), PC_RESOLUTION)

\* compute_amount_out: ok is FALSE when int() raises OverflowError on an
\* infinite element
compute_amount_out(twap_112, amt) ==
    [ok |-> \A k \in 1..Len(twap_112) : ~twap_112[k].inf,
     rshift |-> [k \in 1..Len(twap_112) |->
                    IF twap_112[k].inf THEN 0 ELSE AmountOut(twap_112[k], amt)]]

\* twap_112 of get_twap: the rate of every row, the NaNs filtered out
Twap112(df, window, s) ==
    LET values == [r \in 1..Len(df.rows) |-> df.rows[r]._value]
        times  == [r \in 1..Len(df.rows) |-> df.rows[r]._time]
    IN  NotNaN([r \in 1..Len(df.rows) |->
                  RateOf(RollingDelta(values, r, window),
                         RollingDelta(times, r, window), s)])

\* get_twap of influx_metrics.py: the three arrays are filtered one by one
\* and put side by side; a row without a twap holds NaN and fails twap > 0
get_twap(df, amt, p, s) ==
    LET times  == [r \in 1..Len(df.rows) |-> df.rows[r]._time]
        out    == compute_amount_out(Twap112(df, p.window, s), amt)
        window_times == NotNaN([r \in 1..Len(times) |->
                                  RollingDelta(times, r, p.window)])
        ts     == NotNaN([r \in 1..Len(times) |->
                            RollingLast(times, r, p.window)])
        rows   == [k \in 1..Len(out.rshift) |->
                     [timestamp |-> ts[k].v, window |-> window_times[k].v,
                      twap |-> [pow |-> FALSE, n |-> out.rshift[k], d |-> 1]]]
    IN  IF ~out.ok THEN [err |-> "OverflowError", twaps |-> <<>>]
        ELSE [err |-> "", twaps |-> PositiveTwaps(rows)]

-----------------------------------------------------------------------------
(* Statistics: get_stat and calc_vars, the same in both scripts *)

\* A float of the statistics is held as the set of IEEE classes it may be
\* in: NaN, -inf, negative, zero, positive, +inf. A finite result keeps the
\* sign real arithmetic gives it (no overflow, no underflow), except a sum
\* of a positive and a negative number, whose sign the magnitudes decide.
Atoms == {"nan", "ninf", "neg", "zero", "pos", "pinf"}

NotFinite == {"nan", "ninf", "pinf"}

NegA(a) ==
    CASE a = "ninf" -> "pinf" [] a = "neg" -> "pos" [] a = "pos" -> "neg"
      [] a = "pinf" -> "ninf" [] OTHER -> a

MulA(a, b) ==
    IF a = "nan" \/ b = "nan" THEN {"nan"}
    ELSE IF a = "zero" \/ b = "zero"
    THEN (IF {a, b} \cap {"ninf", "pinf"} # {} THEN {"nan"} ELSE {"zero"})
    ELSE LET negative == (a \in {"ninf", "neg"}) # (b \in {"ninf", "neg"})
             infinite == {a, b} \cap {"ninf", "pinf"} # {}
         IN  IF infinite THEN (IF negative THEN {"ninf"} ELSE {"pinf"})
             ELSE (IF negative THEN {"neg"} ELSE {"pos"})

AddA(a, b) ==
    IF a = "nan" \/ b = "nan" THEN {"nan"}
    ELSE IF {a, b} = {"ninf", "pinf"} THEN {"nan"}
    ELSE IF "pinf" \in {a, b} THEN {"pinf"}
    ELSE IF "ninf" \in {a, b} THEN {"ninf"}
    ELSE IF a = "zero" THEN {b}
    ELSE IF b = "zero" THEN {a}
    ELSE IF a = b THEN {a}
    ELSE {"neg", "zero", "pos"}

\* x / b as numpy divides floats (a zero divisor gives inf or NaN)
DivA(a, b) ==
    IF a = "nan" \/ b = "nan" THEN {"nan"}
    ELSE IF b = "zero"
    THEN (CASE a \in {"pos", "pinf"} -> {"pinf"}
            [] a \in {"neg", "ninf"} -> {"ninf"}
            [] OTHER -> {"nan"})
    ELSE IF b \in {"ninf", "pinf"}
    THEN (IF a \in {"ninf", "pinf"} THEN {"nan"} ELSE {"zero"})
    ELSE IF b = "pos" THEN {a} ELSE {NegA(a)}

\* np.sqrt
SqrtA(a) == IF a \in {"ninf", "neg", "nan"} THEN {"nan"} ELSE {a}

\* a faulty last step of calc_vars, np.exp(x) without the - 1
ExpM1A_exp(a) ==
    IF a = "ninf" THEN {"zero"}
    ELSE IF a \in {"neg", "zero", "pos"} THEN {"pos"}
    ELSE {a}

\* np.exp(x) - 1
ExpM1A(a) == IF a = "ninf" THEN {"neg"} ELSE {a}

\* the operations on a float known only as a set of classes
MulS(A, B) == UNION {MulA(a, b) : a \in A, b \in B}

AddS(A, B) == UNION {AddA(a, b) : a \in A, b \in B}

DivS(A, B) == UNION {DivA(a, b) : a \in A, b \in B}

SqrtS(A) == UNION {SqrtA(a) : a \in A}

ExpM1S(A) == UNION {ExpM1A(a) : a \in A}

\* the class of an integer
ClassOfInt(k) == IF k < 0 THEN {"neg"} ELSE IF k = 0 THEN {"zero"} ELSE {"pos"}

\* sample[i] compared with sample[j]: twaps of one list are of one kind,
\* decoded amounts (d = 1) or powers of 1.0001 with exponent n/d
CmpTwap(x, y) == (x.n * y.d) - (y.n * x.d)

\* rs of get_stat: np.log(sample[i]/sample[i-1]) for i in 1..len-1, the
\* samples positive
LogReturns(sample) ==
    IF Len(sample) < 2 THEN <<>>
    ELSE [i \in 1..(Len(sample) - 1) |->
            ClassOfInt(CmpTwap(sample[i + 1], sample[i]))]

RECURSIVE SumA(_, _)
SumA(rs, i) ==
    IF i > Len(rs) THEN {"zero"} ELSE AddS(rs[i], SumA(rs, i + 1))

\* np.mean(rs): NaN for the empty list
MeanA(rs) ==
    IF Len(rs) = 0 THEN {"nan"} ELSE DivS(SumA(rs, 1), ClassOfInt(Len(rs)))

\* np.var(rs): NaN for the empty list, zero when every deviation from the
\* mean is exactly zero (one return, or returns all 0.0), positive when two
\* returns differ in sign; else zero or positive as rounding leaves it
VarA(rs) ==
    IF Len(rs) = 0 THEN {"nan"}
    ELSE IF Len(rs) = 1 \/ (\A i \in DOMAIN rs : rs[i] = {"zero"}) THEN {"zero"}
    ELSE IF \E i, j \in DOMAIN rs : rs[i] # rs[j] THEN {"pos"}
    ELSE {"zero", "pos"}

\* norm.ppf(1 - alpha), alpha in units of 1/10000
Ppf1m(alpha) ==
    IF alpha < 0 \/ alpha > 10000 THEN {"nan"}
    ELSE IF alpha = 0 THEN {"pinf"}
    ELSE IF alpha = 10000 THEN {"ninf"}
    ELSE ClassOfInt(10000 - (2 * alpha))

\* pow of calc_vars: mu * n * t + sig * np.sqrt(n * t) * norm.ppf(q)
VarPow(mu, sig, t, n, alpha) ==
    AddS(MulS(MulS(mu, ClassOfInt(n)), ClassOfInt(t)),
         MulS(MulS(sig, SqrtS(ClassOfInt(n * t))), Ppf1m(alpha)))

\* calc_vars: one value per alpha, each kept with the alpha and the n it
\* was computed for
calc_vars(mu, sig_sqrd, t, n, alphas) ==
    LET sig == SqrtS(sig_sqrd)
    IN  [j \in 1..Len(alphas) |->
            [arg |-> <<alphas[j], n>>,
             cls |-> ExpM1S(VarPow(mu, sig, t, n, alphas[j]))]]

\* f'VaR alpha={alpha} n={n}'
VarLabel(alpha, n) == [kind |-> "VaR", alpha |-> alpha, n |-> n]

PlainLabel(name) == [kind |-> name, alpha |-> 0, n |-> 0]

\* faulty labels, for alpha in alphas, for n in ns
var_labels_alpha_major(alphas, ns) ==
    [k \in 1..(Len(ns) * Len(alphas)) |->
        VarLabel(alphas[((k - 1) \div Len(ns)) + 1],
                 ns[((k - 1) % Len(ns)) + 1])]

\* var_labels of get_stat: for n in ns, for alpha in alphas
var_labels(alphas, ns) ==
    [k \in 1..(Len(ns) * Len(alphas)) |->
        VarLabel(alphas[((k - 1) % Len(alphas)) + 1],
                 ns[((k - 1) \div Len(alphas)) + 1])]

\* np.concatenate(..., *vars, axis=None): the arrays of vars end to end
ConcatVars(vs, na) ==
    [k \in 1..(Len(vs) * na) |-> vs[((k - 1) \div na) + 1][((k - 1) % na) + 1]]

\* get_stat: the one-row dataframe as its columns, left to right
get_stat(ts, sample, p) ==
    LET t  == p.period
        rs == LogReturns(sample)
        mu == DivS(MeanA(rs), ClassOfInt(t))
        ss == DivS(VarA(rs), ClassOfInt(t))
        vs == [i \in 1..Len(p.n) |-> calc_vars(mu, ss, t, p.n[i], p.alpha)]
        data == << [arg |-> <<ts>>, cls |-> ClassOfInt(ts)],
                   [arg |-> <<>>, cls |-> mu],
                   [arg |-> <<>>, cls |-> ss] >>
                \o ConcatVars(vs, Len(p.alpha))
        columns == << PlainLabel("timestamp"), PlainLabel("mu"),
                      PlainLabel("sigSqrd") >>
                   \o var_labels(p.alpha, p.n)
    IN  [k \in 1..Len(columns) |-> [name |-> columns[k], val |-> data[k]]]

-----------------------------------------------------------------------------
(* Configuration and input *)

\* get_quotes(): the entries of quotes.json that main reads
quotes ==
    << [id |-> "q1", token0_name |-> "A", token1_name |-> "B", amount_in |-> 1],
       [id |-> "q2", token0_name |-> "C", token1_name |-> "D", amount_in |-> 2] >>

\* get_params() of influx_metrics.py, the numbers scaled down to the series
\* of the model; alpha in units of 1/10000
ParamsSushi ==
    { [points |-> 1, window |-> 2, period |-> 1, tolerance |-> 300,
       alpha |-> <<500, 100>>, n |-> <<144, 1008>>],
      [points |-> 1, window |-> 3, period |-> 1, tolerance |-> 300,
       alpha |-> <<5000, 9000, 500>>, n |-> <<144>>],
      [points |-> 1, window |-> 600, period |-> 600, tolerance |-> 300,
       alpha |-> <<500, 100>>, n |-> <<144, 1008>>],
      [points |-> 2, window |-> 2, period |-> 600, tolerance |-> 300,
       alpha |-> <<500, 100>>, n |-> <<144, 1008>>] }

\* get_params() of influx_metrics_univ3.py, scaled down likewise
ParamsUniv3 ==
    { [points |-> 1, window |-> 2, period |-> 2, tolerance |-> 1,
       alpha |-> <<500, 100>>, n |-> <<144, 1008>>],
      [points |-> 1, window |-> 2, period |-> 8, tolerance |-> 0,
       alpha |-> <<5000, 9000, 500>>, n |-> <<144>>],
      [points |-> 2, window |-> 3, period |-> 4, tolerance |-> 1,
       alpha |-> <<500, 100>>, n |-> <<144, 1008>>] }

RECURSIVE SumTo(_, _)
SumTo(f, k) == IF k = 0 THEN 0 ELSE f[k] + SumTo(f, k - 1)

\* the increments a, b, a, b, ...
Alternate(n, a, b) == [k \in 1..(n - 1) |-> IF k % 2 = 1 THEN a ELSE b]

\* a series as sort_values(by='_time', ignore_index=True) leaves it: index
\* 0..n-1, times ascending from gaps, values from steps
SeriesRows(n, gaps, steps) ==
    [r \in 1..n |-> [idx |-> r - 1, _time |-> SumTo(gaps, r - 1),
                     _value |-> SumTo(steps, r - 1), scores |-> <<>>]]

\* the other price of the pair moves against the first one
Mirror(steps) == [k \in DOMAIN steps |-> 3 - steps[k]]

\* five points 600 s apart, the value growing by 1000 per step
ScenarioRows ==
    [r \in 1..5 |-> [idx |-> r - 1, _time |-> 600 * (r - 1),
                     _value |-> 1000 * (r - 1), scores |-> <<>>]]

\* df_p0c and df_p1c of get_price_cumulatives of influx_metrics.py: the rows
\* of each field, sorted
FramesSushi(rows0, rows1, e) ==
    << [_field |-> "price0Cumulative", exp |-> e, rows |-> rows0],
       [_field |-> "price1Cumulative", exp |-> e, rows |-> rows1] >>

\* df_p0c and df_p1c of get_price_cumulatives of influx_metrics_univ3.py:
\* df_p1c is a copy of df_p0c under the other field name
FramesUniv3(rows0) ==
    << [_field |-> "tick_cumulative0", exp |-> 0, rows |-> rows0],
       [_field |-> "tick_cumulative1", exp |-> 0, rows |-> rows0] >>

NoFrames == <<>>

-----------------------------------------------------------------------------
(* main *)

\* influx_univ3_1m.py is not running
IngestIdle ==
    /\ ipc = "idle"
    /\ iq = 0
    /\ fs = <<>>
    /\ reads = <<>>
    /\ item = 0
    /\ wrs = <<>>
    /\ written = <<>>

Init ==
    /\ IngestIdle
    /\ variant \in {"sushi", "univ3"}
    /\ params \in (IF variant = "sushi" THEN ParamsSushi ELSE ParamsUniv3)
    /\ vexp \in (IF variant = "sushi" THEN ValueExps ELSE {0})
    /\ qi = 1
    /\ pc = "fetch"
    /\ timestamp = 0
    /\ pcs = NoFrames
    /\ twaps = <<>>
    /\ stats = <<>>
    /\ wi = 1
    /\ sink = <<>>
    /\ log = <<>>
    /\ closed = FALSE

\* the loop goes on to the next quote; the locals of the body are dead
NextQuote ==
    /\ qi' = qi + 1
    /\ pc' = "fetch"
    /\ timestamp' = 0
    /\ pcs' = NoFrames
    /\ twaps' = <<>>
    /\ stats' = <<>>
    /\ wi' = 1

\* except Exception as e: logging.exception(e)
Except(name) ==
    /\ log' = Append(log, [id |-> quotes[qi].id, err |-> name])
    /\ NextQuote

\* pcs[0]['_time'].max() - pcs[0]['_time'].min() < timedelta(days=points-1)
TooShort(frames, p) ==
    LET t == [r \in 1..Len(frames[1].rows) |-> frames[1].rows[r]._time]
    IN  t[Len(t)] - t[1] < (p.points - 1) * 86400

\* get_price_cumulatives returned `frames`: timestamp is the last _time of
\* df_p0c; then the check of the days of data, whose `continue` only
\* influx_metrics.py has
Fetched(frames) ==
    IF variant = "sushi" /\ TooShort(frames, params)
    THEN NextQuote /\ UNCHANGED <<sink, log>>
    ELSE /\ timestamp' = frames[1].rows[Len(frames[1].rows)]._time
         /\ pcs' = frames
         /\ pc' = "twaps"
         /\ UNCHANGED <<qi, twaps, stats, wi, sink, log>>

\* main: get_price_cumulatives for the quote, with a series of the bounds
FetchSeries ==
    /\ pc = "fetch" /\ qi <= Len(quotes)
    /\ \E n \in 1..MaxLen :
         \E g \in [1..(n - 1) -> Gaps], a \in Steps, b \in Steps :
            LET st == Alternate(n, a, b)
            IN  IF variant = "sushi"
                THEN /\ \E c \in Gaps, d \in Gaps : g = Alternate(n, c, d)
                     /\ Fetched(FramesSushi(SeriesRows(n, g, st),
                                            SeriesRows(n, g, Mirror(st)), vexp))
                ELSE Fetched(FramesUniv3(SeriesRows(n, g, st)))
    /\ UNCHANGED ingest
    /\ UNCHANGED <<variant, params, vexp, closed>>

\* main: get_price_cumulatives returns the five-point series
FetchScenario ==
    /\ pc = "fetch" /\ qi <= Len(quotes)
    /\ IF variant = "sushi"
       THEN Fetched(FramesSushi(ScenarioRows, ScenarioRows, vexp))
       ELSE Fetched(FramesUniv3(ScenarioRows))
    /\ UNCHANGED ingest
    /\ UNCHANGED <<variant, params, vexp, closed>>

\* main: get_price_cumulatives raises (the query fails, or no row comes
\* back and the last timestamp cannot be read)
FetchFails ==
    /\ pc = "fetch" /\ qi <= Len(quotes)
    /\ Except("FetchError")
    /\ UNCHANGED ingest
    /\ UNCHANGED <<variant, params, vexp, sink, closed>>

\* get_twap of the running script on one dataframe of the quote
TwapOf(df, q) ==
    IF variant = "sushi" THEN get_twap(df, q.amount_in, params, df.exp)
    ELSE get_twap_univ3(df, params)

\* the dataframe as get_twap leaves it to its caller
FrameAfter(df) ==
    IF variant = "sushi" THEN df
    ELSE [df EXCEPT !.rows =
            dynamic_window_inplace(df.rows,
                MaxRowsOf(params.window, params.period), params.window)]

\* main: twaps = get_twaps(pcs, q, params), the dataframes in order; the
\* first exception ends the body
GetTwaps ==
    /\ pc = "twaps"
    /\ LET res == [i \in 1..Len(pcs) |-> TwapOf(pcs[i], quotes[qi])]
           bad == {i \in 1..Len(pcs) : res[i].err # ""}
       IN  IF bad # {}
           THEN /\ Except(res[CHOOSE i \in bad : \A j \in bad : i <= j].err)
                /\ UNCHANGED sink
           ELSE /\ twaps' = [i \in 1..Len(pcs) |-> res[i].twaps]
                /\ pcs' = [i \in 1..Len(pcs) |-> FrameAfter(pcs[i])]
                /\ pc' = "stats"
                /\ UNCHANGED <<qi, timestamp, stats, wi, sink, log>>
    /\ UNCHANGED ingest
    /\ UNCHANGED <<variant, params, vexp, closed>>

\* get_samples_from_twaps: twap['twap'].to_numpy()
get_samples_from_twaps(tws) ==
    [i \in 1..Len(tws) |-> [k \in 1..Len(tws[i]) |-> tws[i][k].twap]]

\* main: samples = get_samples_from_twaps(twaps); stats = get_stats(...)
GetStats ==
    /\ pc = "stats"
    /\ LET samples == get_samples_from_twaps(twaps)
       IN  stats' = [i \in 1..Len(samples) |->
                        get_stat(timestamp, samples[i], params)]
    /\ pc' = "write"
    /\ wi' = 1
    /\ UNCHANGED ingest
    /\ UNCHANGED <<variant, params, vexp, qi, timestamp, pcs, twaps, sink, log, closed>>

\* stat[col] of the one-row dataframe
StatCol(stat, name) ==
    (CHOOSE c \in Range(stat) : c.name = PlainLabel(name)).val

\* a faulty Point, which also takes the timestamp for a field
PointOf_all_columns(q, i, stat) ==
    [id |-> q.id,
     token_name |-> IF i = 1 THEN q.token0_name ELSE q.token1_name,
     _type |-> IF i = 1 THEN "price0Cumulative" ELSE "price1Cumulative",
     time |-> StatCol(stat, "timestamp").arg[1],
     fields |-> stat]

\* the Point main builds for stats[i-1] (i counts from 1 here)
PointOf(q, i, stat) ==
    LET keep == [k \in 1..Len(stat) |-> stat[k].name # PlainLabel("timestamp")]
        idx == SelectIdx(keep, 1, Len(stat))
    IN  [id |-> q.id,
         token_name |-> IF i = 1 THEN q.token0_name ELSE q.token1_name,
         _type |-> IF i = 1 THEN "price0Cumulative" ELSE "price1Cumulative",
         time |-> StatCol(stat, "timestamp").arg[1],
         fields |-> [k \in 1..Len(idx) |-> stat[idx[k]]]]

\* after the last stat the body ends
WriteDone ==
    IF wi = Len(stats) THEN NextQuote
    ELSE wi' = wi + 1 /\ UNCHANGED <<qi, pc, timestamp, pcs, twaps, stats>>

\* main: write_api.write(bucket, org, point) for stats[wi-1] returns
WritePoint ==
    /\ pc = "write" /\ wi <= Len(stats)
    /\ sink' = Append(sink, PointOf(quotes[qi], wi, stats[wi]))
    /\ WriteDone
    /\ UNCHANGED ingest
    /\ UNCHANGED <<variant, params, vexp, log, closed>>

\* main: write_api.write raises
WriteFails ==
    /\ pc = "write" /\ wi <= Len(stats)
    /\ Except("WriteError")
    /\ UNCHANGED ingest
    /\ UNCHANGED <<variant, params, vexp, sink, closed>>

\* main: client.close()
Close ==
    /\ pc = "fetch" /\ qi > Len(quotes) /\ ~closed
    /\ closed' = TRUE
    /\ UNCHANGED ingest
    /\ UNCHANGED <<variant, params, vexp, qi, pc, timestamp, pcs, twaps, stats, wi,
                   sink, log>>

Next ==
    \/ FetchSeries
    \/ FetchScenario
    \/ FetchFails
    \/ GetTwaps
    \/ GetStats
    \/ WritePoint
    \/ WriteFails
    \/ Close

Spec == Init /\ [][Next]_vars

\* get_params() with the list of alphas or the list of horizons left empty
ParamsEmptyGrid ==
    { [points |-> 1, window |-> 2, period |-> 1, tolerance |-> 300,
       alpha |-> <<>>, n |-> <<144, 1008>>],
      [points |-> 1, window |-> 2, period |-> 8, tolerance |-> 0,
       alpha |-> <<500, 100>>, n |-> <<>>] }

\* a run of main with such parameters: influx_metrics.py on cumulatives in
\* units of 2^112 or influx_metrics_univ3.py
InitEmptyGrid ==
    /\ IngestIdle
    /\ variant \in {"sushi", "univ3"}
    /\ params \in {p \in ParamsEmptyGrid :
                    (variant = "sushi") = (p.alpha = <<>>)}
    /\ vexp = (IF variant = "sushi" THEN PC_RESOLUTION ELSE 0)
    /\ qi = 1
    /\ pc = "fetch"
    /\ timestamp = 0
    /\ pcs = NoFrames
    /\ twaps = <<>>
    /\ stats = <<>>
    /\ wi = 1
    /\ sink = <<>>
    /\ log = <<>>
    /\ closed = FALSE

SpecEmptyGrid == InitEmptyGrid /\ [][Next]_vars

-----------------------------------------------------------------------------
(* influx_univ3_1m.py: one pass of get_uni_cumulatives over the quotes *)

\* `while not success and retries < 5`
MaxRetries == 5

\* most timestamps np.arange(t_start, t_end, window) yields for a quote
MaxCalls == 2

\* retries = 1; success = False.  tries counts the calls the loop has made
\* and waits lists the sleeps, in order.
RetryLoop == [retries |-> 1, success |-> FALSE, tries |-> 0, waits |-> <<>>]

\* the loop condition with a limit the counter reaches one step later
Looping_inclusive(l) == ~l.success /\ l.retries <= MaxRetries

\* the condition of the three retry loops
Looping(l) == ~l.success /\ l.retries < MaxRetries

\* wait = retries * 10
Wait(retries) == retries * 10

\* the call in the try block returns: success = True
Succeed(l) == [l EXCEPT !.success = TRUE, !.tries = @ + 1]

\* the call raises: sleep(wait); retries += 1
Fail(l) ==
    [l EXCEPT !.tries = @ + 1,
              !.waits = Append(@, Wait(l.retries)),
              !.retries = @ + 1]

\* the loop ended without a success: the name assigned in the try block
\* (result in get_b_t, r in find_start) is unbound after it
Unbound(l) == ~l.success /\ ~Looping(l)

\* a read_cumulatives call submitted to the pool: the loop of its get_b_t,
\* the outcome of pair.observe and whether the call ended while a call
\* before it in the list was still running
ReadCall == [loop |-> RetryLoop, observe |-> "pending", early |-> FALSE]

\* the read_cumulatives calls of rs that are still running
Running(rs) ==
    {c \in 1..Len(rs) : rs[c].observe = "pending" /\ Looping(rs[c].loop)}

\* call c of rs ends now: is a call before it still running
EndsEarly(rs, c) == \E b \in Running(rs) : b < c

\* the call whose result a loop over the results last to first gets k-th
ResultAt_reversed(rs, k) == Len(rs) + 1 - k

\* the call whose result the loop over executor.map gets k-th: map yields
\* the results in the order of the calls
ResultAt(rs, k) == k

\* read_cumulatives raised: get_b_t read the unbound result, or observe failed
ReadRaised(r) == Unbound(r.loop) \/ r.observe = "raised"

\* main of influx_univ3_1m.py enters get_uni_cumulatives
InitIngest ==
    /\ ipc = "find_start"
    /\ iq = 1
    /\ fs = RetryLoop
    /\ reads = <<>>
    /\ item = 0
    /\ wrs = <<>>
    /\ written = <<>>
    /\ variant = "univ3_1m"
    /\ params = [window |-> 60]
    /\ vexp = 0
    /\ qi = 0
    /\ pc = "idle"
    /\ timestamp = 0
    /\ pcs = NoFrames
    /\ twaps = <<>>
    /\ stats = <<>>
    /\ wi = 0
    /\ sink = <<>>
    /\ log = <<>>
    /\ closed = FALSE

\* find_start: query_data_frame returns
QueryOk ==
    /\ ipc = "find_start"
    /\ Looping(fs)
    /\ fs' = Succeed(fs)
    /\ UNCHANGED <<ipc, iq, reads, item, wrs, written>>
    /\ UNCHANGED metrics

\* find_start: query_data_frame raises
QueryFails ==
    /\ ipc = "find_start"
    /\ Looping(fs)
    /\ fs' = Fail(fs)
    /\ UNCHANGED <<ipc, iq, reads, item, wrs, written>>
    /\ UNCHANGED metrics

\* find_start returns t_start; get_uni_cumulatives builds the calls and
\* index_pair submits them all to the pool
FindStartReturns ==
    /\ ipc = "find_start"
    /\ fs.success
    /\ \E nc \in 0..MaxCalls :
        /\ reads' = [c \in 1..nc |-> ReadCall]
        /\ wrs' = [c \in 1..nc |-> RetryLoop]
    /\ item' = 1
    /\ ipc' = "index_pair"
    /\ UNCHANGED <<iq, fs, written>>
    /\ UNCHANGED metrics

\* find_start leaves its loop without a result: `len(r.index)` raises
\* UnboundLocalError, which nothing up to main catches
FindStartRaises ==
    /\ ipc = "find_start"
    /\ Unbound(fs)
    /\ ipc' = "raised"
    /\ UNCHANGED <<iq, fs, reads, item, wrs, written>>
    /\ UNCHANGED metrics

\* a worker thread: the post of get_b_t returns a block, then pair.observe
\* returns or raises
GetBlockOk ==
    /\ ipc = "index_pair"
    /\ \E c \in 1..Len(reads) :
        /\ Looping(reads[c].loop)
        /\ reads[c].observe = "pending"
        /\ \E o \in {"ok", "raised"} :
            reads' = [reads EXCEPT ![c] =
                        [loop |-> Succeed(reads[c].loop),
                         observe |-> o,
                         early |-> EndsEarly(reads, c)]]
    /\ UNCHANGED <<ipc, iq, fs, item, wrs, written>>
    /\ UNCHANGED metrics

\* a worker thread: the post of get_b_t raises
GetBlockFails ==
    /\ ipc = "index_pair"
    /\ \E c \in 1..Len(reads) :
        /\ Looping(reads[c].loop)
        /\ reads[c].observe = "pending"
        /\ reads' = [reads EXCEPT ![c] =
                        [loop |-> Fail(reads[c].loop),
                         observe |-> "pending",
                         early |-> ~Looping(Fail(reads[c].loop))
                                   /\ EndsEarly(reads, c)]]
    /\ UNCHANGED <<ipc, iq, fs, item, wrs, written>>
    /\ UNCHANGED metrics

\* the point written for the item-th call of quote q
IngestPoint(q, c) == [id |-> q.id, call |-> c]

\* index_pair has the result of the next call and write_api.write returns
WriteOk ==
    /\ ipc = "index_pair"
    /\ \E c \in {ResultAt(reads, item)} \cap (1..Len(reads)) :
        /\ reads[c].observe = "ok"
        /\ Looping(wrs[c])
        /\ wrs' = [wrs EXCEPT ![c] = Succeed(wrs[c])]
        /\ written' = Append(written, IngestPoint(quotes[iq], c))
    /\ item' = item + 1
    /\ UNCHANGED <<ipc, iq, fs, reads>>
    /\ UNCHANGED metrics

\* write_api.write raises; when the loop gives up the for loop goes on to
\* the next item
WriteRaises ==
    /\ ipc = "index_pair"
    /\ \E c \in {ResultAt(reads, item)} \cap (1..Len(reads)) :
        /\ reads[c].observe = "ok"
        /\ Looping(wrs[c])
        /\ wrs' = [wrs EXCEPT ![c] = Fail(wrs[c])]
        /\ item' = (IF Looping(Fail(wrs[c])) THEN item ELSE item + 1)
    /\ UNCHANGED <<ipc, iq, fs, reads, written>>
    /\ UNCHANGED metrics

\* the next result of executor.map is an exception: it leaves index_pair
\* once the pool has shut down, and nothing up to main catches it
ReadRaises ==
    /\ ipc = "index_pair"
    /\ \E c \in {ResultAt(reads, item)} \cap (1..Len(reads)) :
        ReadRaised(reads[c])
    /\ Running(reads) = {}
    /\ ipc' = "raised"
    /\ UNCHANGED <<iq, fs, reads, item, wrs, written>>
    /\ UNCHANGED metrics

\* index_pair returns; `for q in quotes` goes on or the pass is over
PairDone ==
    /\ ipc = "index_pair"
    /\ item > Len(reads)
    /\ IF iq < Len(quotes)
       THEN /\ iq' = iq + 1
            /\ ipc' = "find_start"
            /\ fs' = RetryLoop
            /\ reads' = <<>>
            /\ wrs' = <<>>
            /\ item' = 0
            /\ written' = <<>>
       ELSE /\ ipc' = "done"
            /\ UNCHANGED <<iq, fs, reads, wrs, item, written>>
    /\ UNCHANGED metrics

NextIngest ==
    \/ QueryOk
    \/ QueryFails
    \/ FindStartReturns
    \/ FindStartRaises
    \/ GetBlockOk
    \/ GetBlockFails
    \/ WriteOk
    \/ WriteRaises
    \/ ReadRaises
    \/ PairDone

SpecIngest == InitIngest /\ [][NextIngest]_vars

-----------------------------------------------------------------------------
(* Properties of the dynamic-window TWAP (influx_metrics_univ3.py) *)

\* main of influx_metrics_univ3.py is about to call get_twaps on pcs
AtTwapsUniv3 == variant = "univ3" /\ pc = "twaps"

\* max_lag: the number of candidate lags get_twap asks dynamic_window for
MaxLag == MaxRowsOf(params.window, params.period)

\* elapsed(i) of the r-th row (1-based) of a series, r > i
Elapsed(rows, r, i) == rows[r]._time - rows[r - i]._time

\* score(i) = |elapsed(i) - window|
Score(rows, r, i, window) ==
    IF Elapsed(rows, r, i) >= window THEN Elapsed(rows, r, i) - window
    ELSE window - Elapsed(rows, r, i)

\* the r-th row has at least max_lag preceding rows
FullHistory(r) == r - 1 >= MaxLag

\* the samples of `tws` that close at the time of the r-th row of `rows`
SamplesOfRow(tws, rows, r) ==
    {k \in 1..Len(tws) : tws[k].timestamp = rows[r]._time}

\* C1: for every row with at least max_lag preceding rows, dynamic_window
\* returns the row with a lag in 1..max_lag whose score
\* |(timestamp[row] - timestamp[row-i]) - window| is minimal, and of several
\* lags with the minimal score it is the smallest.
LagSelection ==
    AtTwapsUniv3 =>
        \A f \in 1..Len(pcs) :
            LET rows  == pcs[f].rows
                frame == dynamic_window(rows, MaxLag, params.window)
            IN  \A r \in 1..Len(rows) :
                    FullHistory(r) =>
                        /\ \E k \in 1..Len(frame) : frame[k].idx = r - 1
                        /\ \A k \in 1..Len(frame) :
                             frame[k].idx = r - 1 =>
                                LET L == frame[k].dynamic_window
                                IN  /\ L \in 1..MaxLag
                                    /\ \A i \in 1..MaxLag :
                                         /\ Score(rows, r, L, params.window)
                                              <= Score(rows, r, i, params.window)
                                         /\ i < L =>
                                              Score(rows, r, L, params.window)
                                                < Score(rows, r, i, params.window)

\* a row with full history for which two lags tie for the minimal score, in
\* a series main hands to get_twap
LagSelectionTie ==
    /\ AtTwapsUniv3
    /\ \E f \in 1..Len(pcs) :
         LET rows  == pcs[f].rows
             frame == dynamic_window(rows, MaxLag, params.window)
         IN  \E k \in 1..Len(frame) :
                LET r == frame[k].idx + 1
                    L == frame[k].dynamic_window
                IN  /\ FullHistory(r)
                    /\ \E i \in 1..MaxLag :
                         /\ i > L
                         /\ Score(rows, r, i, params.window)
                              = Score(rows, r, L, params.window)

\* C2: every sample the dynamic get_twap returns has an elapsed window
\* delta_time with delta_time > 0 and window - tolerance <= delta_time <=
\* window + tolerance, and a row none of whose candidate lags has a score
\* within tolerance gives no sample.
ToleranceFilter ==
    AtTwapsUniv3 =>
        \A f \in 1..Len(pcs) :
            LET rows == pcs[f].rows
                res  == get_twap_univ3(pcs[f], params)
            IN  /\ \A k \in 1..Len(res.twaps) :
                     LET dt == res.twaps[k].window
                     IN  /\ dt > 0
                         /\ params.window - params.tolerance <= dt
                         /\ dt <= params.window + params.tolerance
                /\ \A r \in 1..Len(rows) :
                     (\A i \in 1..MaxLag :
                        i < r => Score(rows, r, i, params.window)
                                    > params.tolerance)
                     => SamplesOfRow(res.twaps, rows, r) = {}

\* get_twap returns samples for a series of which a row with full history
\* has no candidate lag within tolerance
ToleranceRejects ==
    /\ AtTwapsUniv3
    /\ \E f \in 1..Len(pcs) :
         LET rows == pcs[f].rows
             res  == get_twap_univ3(pcs[f], params)
         IN  /\ res.err = ""
             /\ Len(res.twaps) > 0
             /\ \E r \in 1..Len(rows) :
                  /\ FullHistory(r)
                  /\ \A i \in 1..MaxLag :
                       Score(rows, r, i, params.window) > params.tolerance

\* C3: a row with fewer than max_lag preceding rows is not in the frame
\* dynamic_window returns nor in the one it leaves to its caller, so that
\* every row scored has all max_lag candidates; it gives no sample; and
\* dynamic_window returns all the other rows, whatever it drops.
HistoryRule ==
    AtTwapsUniv3 =>
        \A f \in 1..Len(pcs) :
            LET rows  == pcs[f].rows
                frame == dynamic_window(rows, MaxLag, params.window)
                left  == dynamic_window_inplace(rows, MaxLag, params.window)
                res   == get_twap_univ3(pcs[f], params)
            IN  /\ \A k \in 1..Len(frame) : FullHistory(frame[k].idx + 1)
                /\ \A k \in 1..Len(left) :
                     /\ FullHistory(left[k].idx + 1)
                     /\ DOMAIN left[k].scores = 1..MaxLag
                     /\ \A i \in 1..MaxLag : left[k].scores[i] # NaN
                /\ \A r \in 1..Len(rows) :
                     ~FullHistory(r) => SamplesOfRow(res.twaps, rows, r) = {}
                /\ Len(frame) = Cardinality({r \in 1..Len(rows) : FullHistory(r)})
                /\ res.err = "EmptyFrame" <=> Len(rows) <= MaxLag

\* get_twap returns samples for a series whose first rows lack history
HistoryDropped ==
    /\ AtTwapsUniv3
    /\ \E f \in 1..Len(pcs) :
         LET rows == pcs[f].rows
             res  == get_twap_univ3(pcs[f], params)
         IN  /\ \E r \in 2..Len(rows) : ~FullHistory(r)
             /\ Len(dynamic_window(rows, MaxLag, params.window)) < Len(rows)
             /\ res.err = ""
             /\ Len(res.twaps) > 0

-----------------------------------------------------------------------------
(* Properties of the fixed-window TWAP (influx_metrics.py) *)

\* main of influx_metrics.py is about to call get_twaps on pcs
AtTwapsSushi == variant = "sushi" /\ pc = "twaps"

\* a / b rounded toward zero, b > 0
TruncDiv(a, b) == IF a >= 0 THEN a \div b ELSE -((-a) \div b)

\* r * amount_in / 2^112 rounded toward zero, for the rate r = (n/d) * 2^s:
\* with s = 112 it is n * amount_in / d rounded toward zero, and with s = 0
\* the quotient is less than 1 in magnitude
TruncatedQuotient(rate, amt) ==
    IF rate.s = PC_RESOLUTION THEN TruncDiv(rate.n * amt, rate.d) ELSE 0

\* int(r * amount_in) is a multiple of 2^112: with s = 112 when d divides
\* n * amount_in, with s = 0 only when it is zero
IntIsMultiple(rate, amt) ==
    IF rate.s = PC_RESOLUTION THEN (rate.n * amt) % rate.d = 0
    ELSE TruncDiv(rate.n * amt, rate.d) = 0

\* what r * amount_in >> 112 comes to: the floor of int(r * amount_in) / 2^112
FlooredQuotient(rate, amt) ==
    IF rate.n * amt >= 0 \/ IntIsMultiple(rate, amt)
    THEN TruncatedQuotient(rate, amt)
    ELSE TruncatedQuotient(rate, amt) - 1

\* the rates get_twap hands to compute_amount_out for the f-th dataframe
RatesOf(f) == Twap112(pcs[f], params.window, pcs[f].exp)

\* C4 as stated: every element compute_amount_out returns is
\* r * amount_in / 2^112 rounded toward zero, whatever the sign of
\* r * amount_in, and the output is as long as the input.
DecoderTruncates ==
    AtTwapsSushi =>
        \A f \in 1..Len(pcs) :
            LET out == compute_amount_out(RatesOf(f), quotes[qi].amount_in)
            IN  /\ Len(out.rshift) = Len(RatesOf(f))
                /\ \A k \in 1..Len(out.rshift) :
                     out.rshift[k]
                       = TruncatedQuotient(RatesOf(f)[k], quotes[qi].amount_in)

\* C4, amended: every element compute_amount_out returns is the floor of
\* int(r * amount_in) / 2^112, int rounding toward zero: it is
\* r * amount_in / 2^112 rounded toward zero when r * amount_in >= 0 or
\* int(r * amount_in) is a multiple of 2^112, and one less than that
\* otherwise; the output is as long as the input.
DecoderFloors ==
    AtTwapsSushi =>
        \A f \in 1..Len(pcs) :
            LET out == compute_amount_out(RatesOf(f), quotes[qi].amount_in)
            IN  /\ out.ok
                /\ Len(out.rshift) = Len(RatesOf(f))
                /\ \A k \in 1..Len(out.rshift) :
                     out.rshift[k]
                       = FlooredQuotient(RatesOf(f)[k], quotes[qi].amount_in)

\* compute_amount_out is handed a negative rate whose product with
\* amount_in is no multiple of 2^112, and returns one less than the
\* quotient rounded toward zero
DecoderNegative ==
    /\ AtTwapsSushi
    /\ \E f \in 1..Len(pcs) :
         LET out == compute_amount_out(RatesOf(f), quotes[qi].amount_in)
         IN  \E k \in 1..Len(out.rshift) :
                /\ RatesOf(f)[k].n < 0
                /\ ~IntIsMultiple(RatesOf(f)[k], quotes[qi].amount_in)
                /\ out.rshift[k]
                     = TruncatedQuotient(RatesOf(f)[k], quotes[qi].amount_in) - 1

\* the series of the f-th dataframe is spaced by exactly `period`
UniformSpacing(f) ==
    \A r \in 2..Len(pcs[f].rows) :
        pcs[f].rows[r]._time - pcs[f].rows[r - 1]._time = params.period

\* the rate get_twap computes at the r-th row of the f-th dataframe, and the
\* elapsed time it goes with
RateAt(f, r) ==
    LET rows   == pcs[f].rows
        values == [q \in 1..Len(rows) |-> rows[q]._value]
        times  == [q \in 1..Len(rows) |-> rows[q]._time]
    IN  [rate |-> RateOf(RollingDelta(values, r, params.window),
                         RollingDelta(times, r, params.window), pcs[f].exp),
         dt   |-> RollingDelta(times, r, params.window)]

\* C5 as stated: for a series spaced by exactly `period` and window =
\* k * period, get_twap computes at every row r with k rows before it the
\* rate (value[r] - value[r-k]) / (timestamp[r] - timestamp[r-k]), over an
\* elapsed time of exactly `window` seconds.
FixedWindowRate ==
    AtTwapsSushi =>
        \A f \in 1..Len(pcs) :
            LET rows == pcs[f].rows
                k    == params.window \div params.period
            IN  (UniformSpacing(f) /\ params.window = k * params.period) =>
                    \A r \in 1..Len(rows) :
                        r > k =>
                            /\ ~RateAt(f, r).rate.nan
                            /\ RateAt(f, r).dt.v = params.window
                            /\ RateAt(f, r).rate.n
                                 * (rows[r]._time - rows[r - k]._time)
                               = (rows[r]._value - rows[r - k]._value)
                                 * RateAt(f, r).rate.d

\* get_twap has returned for the five-point series: window = 600 and
\* amount_in = 1
ScenarioCase ==
    /\ variant = "sushi" /\ pc = "stats"
    /\ params.window = 600
    /\ quotes[qi].amount_in = 1
    /\ \A f \in 1..Len(pcs) : pcs[f].rows = ScenarioRows

\* C6 as stated: for 5 points 600 s apart, the value growing by 1000 per
\* step, window = 600 and amount_in = 1, get_twap returns a single sample,
\* whose twap is (1000 * 1) >> 112.
ScenarioSingleSample ==
    (ScenarioCase /\ vexp = 0) =>
        \A f \in 1..Len(twaps) :
            /\ Len(twaps[f]) = 1
            /\ twaps[f][1].twap.n = ShiftRight(1000 * 1, PC_RESOLUTION)

\* C6, amended: for 5 points 600 s apart, the value growing by 1000 per
\* step (of either unit), window = 600 and amount_in = 1, get_twap returns
\* no sample: no rolling window of 600 rows is complete.
ScenarioNoSample ==
    ScenarioCase => \A f \in 1..Len(twaps) : twaps[f] = <<>>

\* get_twap has returned for the five-point series in units of 1
ScenarioRun ==
    /\ ScenarioCase
    /\ vexp = 0
    /\ Len(twaps) = 2
    /\ \A f \in 1..Len(twaps) : Len(twaps[f]) = 0

\* twap > 0 of a sample
IsPositive(tw) == tw.pow \/ tw.n > 0

\* the elements of a decoded array that are > 0
PositiveCount(arr) == Cardinality({k \in 1..Len(arr) : arr[k] > 0})

\* C7: every sample either get_twap returns has twap > 0; in
\* influx_metrics.py the rows whose decoded twap is zero or negative are
\* left out, and only they, and get_twap returns without an exception.
Positivity ==
    pc = "twaps" =>
        \A f \in 1..Len(pcs) :
            LET res == TwapOf(pcs[f], quotes[qi])
            IN  /\ \A k \in 1..Len(res.twaps) : IsPositive(res.twaps[k].twap)
                /\ variant = "sushi" =>
                     LET out == compute_amount_out(RatesOf(f),
                                                   quotes[qi].amount_in)
                     IN  out.ok =>
                            /\ res.err = ""
                            /\ Len(res.twaps) = PositiveCount(out.rshift)

\* get_twap of influx_metrics.py returns samples for a series of which some
\* decoded twap is zero or negative
PositivityDrops ==
    /\ AtTwapsSushi
    /\ \E f \in 1..Len(pcs) :
         LET res == TwapOf(pcs[f], quotes[qi])
             out == compute_amount_out(RatesOf(f), quotes[qi].amount_in)
         IN  /\ res.err = ""
             /\ Len(res.twaps) > 0
             /\ \E k \in 1..Len(out.rshift) : out.rshift[k] <= 0

-----------------------------------------------------------------------------
(* Properties of the statistics and of the records written *)

\* the positions of the VaR columns of a stat
VarColumns(stat) == {k \in 1..Len(stat) : stat[k].name.kind = "VaR"}

\* the position of alpha in the configured list
AlphaIndex(alpha) == CHOOSE j \in 1..Len(params.alpha) : params.alpha[j] = alpha

\* C8: the record get_stat builds has one VaR column for every pair
\* (alpha, n) of the configured lists, labelled with that alpha and that n,
\* and no other VaR column; the value under a label is the one calc_vars
\* computed for the alpha and the n of the label.
VarGrid ==
    pc = "write" =>
        \A i \in 1..Len(stats) :
            LET stat == stats[i]
                mu   == StatCol(stat, "mu").cls
                ss   == StatCol(stat, "sigSqrd").cls
            IN  /\ {stat[k].name : k \in VarColumns(stat)}
                     = {VarLabel(a, n) : a \in Range(params.alpha),
                                         n \in Range(params.n)}
                /\ Cardinality(VarColumns(stat))
                     = Len(params.alpha) * Len(params.n)
                /\ \A k \in VarColumns(stat) :
                     /\ stat[k].val.arg = <<stat[k].name.alpha, stat[k].name.n>>
                     /\ stat[k].val
                          = calc_vars(mu, ss, params.period, stat[k].name.n,
                                      params.alpha)[AlphaIndex(stat[k].name.alpha)]

\* a stat with a grid of two alphas by two horizons has been built
VarGridBuilt ==
    /\ pc = "write"
    /\ Len(params.alpha) > 1 /\ Len(params.n) > 1
    /\ \E i \in 1..Len(stats) :
         /\ Cardinality(VarColumns(stats[i])) = 4
         /\ \E k \in VarColumns(stats[i]) :
              stats[i][k].val.cls \cap NotFinite = {}

FiniteWrites ==
    \A k \in 1..Len(sink) :
        \A j \in 1..Len(sink[k].fields) :
            sink[k].fields[j].val.cls \cap NotFinite = {}

-----------------------------------------------------------------------------
(* Properties of main: what is skipped and what is isolated *)

\* C11 as stated: a series that gives fewer than 2 TWAP samples gets no
\* estimate and no record: every record written so far for the quote in
\* hand comes from a sample list of at least 2.
EstimatesNeedSamples ==
    pc = "write" => \A i \in 1..(wi - 1) : Len(twaps[i]) >= 2

\* the exceptions logged for the quote `id`
LoggedFor(id) == {k \in 1..Len(log) : log[k].id = id}

\* C12 as stated, for the sibling field: an exception raised for one field
\* of a quote does not keep the other field from being written, so a quote
\* with a single failed write and no other exception has the record of its
\* other field in the sink.
SiblingIsolated ==
    \A k \in 1..Len(log) :
        (log[k].err = "WriteError" /\ Cardinality(LoggedFor(log[k].id)) = 1)
        => \E j \in 1..Len(sink) : sink[j].id = log[k].id

TwapStepPure ==
    pc = "twaps" =>
        \A f \in 1..Len(pcs) :
            /\ FrameAfter(pcs[f]) = pcs[f]
            /\ TwapOf(FrameAfter(pcs[f]), quotes[qi]) = TwapOf(pcs[f], quotes[qi])

\* the labels of the fields a record must hold
FieldLabels ==
    {PlainLabel("mu"), PlainLabel("sigSqrd")}
    \cup {VarLabel(a, n) : a \in Range(params.alpha), n \in Range(params.n)}

\* f'price{i}Cumulative' and q[f'token{i}_name'] for the i-th stat, i from 1
TypeOfField(i) == IF i = 1 THEN "price0Cumulative" ELSE "price1Cumulative"

TokenOfField(q, i) == IF i = 1 THEN q.token0_name ELSE q.token1_name

\* C17: every write of main adds exactly one record, for the stat the write
\* loop is at: tagged with the id of the quote, the token name and the type
\* of the stat's position, timed at main's timestamp, which is the stat's,
\* and holding as fields mu, sigSqrd and every VaR label with the stat's
\* values, never the timestamp; the records of the stats written so far for
\* the quote in hand are the last ones of the sink, one per stat, in order.
RecordShape ==
    /\ [](pc = "write" =>
            /\ Len(sink) >= wi - 1
            /\ \A i \in 1..(wi - 1) :
                 /\ sink[Len(sink) - (wi - 1) + i].id = quotes[qi].id
                 /\ sink[Len(sink) - (wi - 1) + i]._type = TypeOfField(i))
    /\ [][sink' # sink =>
            /\ pc = "write"
            /\ Len(sink') = Len(sink) + 1
            /\ SubSeq(sink', 1, Len(sink)) = sink
            /\ LET pt == sink'[Len(sink')]
               IN  /\ pt.id = quotes[qi].id
                   /\ pt.token_name = TokenOfField(quotes[qi], wi)
                   /\ pt._type = TypeOfField(wi)
                   /\ pt.time = timestamp
                   /\ <<pt.time>> = StatCol(stats[wi], "timestamp").arg
                   /\ {pt.fields[j].name : j \in 1..Len(pt.fields)} = FieldLabels
                   /\ Len(pt.fields) = Cardinality(FieldLabels)
                   /\ \A j \in 1..Len(pt.fields) :
                        /\ pt.fields[j] \in Range(stats[wi])
                        /\ pt.fields[j].name # PlainLabel("timestamp")]_vars

\* both records of a quote are in the sink, the first with a finite VaR
RecordsWritten ==
    /\ Len(sink) >= 2
    /\ sink[1].id = sink[2].id
    /\ sink[1]._type = "price0Cumulative"
    /\ sink[2]._type = "price1Cumulative"
    /\ \E j \in 1..Len(sink[1].fields) :
         /\ sink[1].fields[j].name.kind = "VaR"
         /\ sink[1].fields[j].val.cls \cap NotFinite = {}

-----------------------------------------------------------------------------
(* Properties of the lookback of the dynamic-window TWAP *)

\* the integer part of (window/period + 1) * 2: the m with
\* m * period <= 2 * (window + period) < (m + 1) * period
FloorLags ==
    CHOOSE m \in 0..(2 * (params.window + params.period)) :
        /\ m * params.period <= 2 * (params.window + params.period)
        /\ 2 * (params.window + params.period) < (m + 1) * params.period

\* ceil(window/period + 1) * 2: twice the least c with
\* c * period >= window + period
CeilLags ==
    2 * (CHOOSE c \in 0..(params.window + params.period) :
            /\ c * params.period >= params.window + params.period
            /\ (c - 1) * params.period < params.window + params.period)

\* the numbers of lags scored for the rows get_twap leaves in the f-th
\* dataframe of main
LagsScored(f) ==
    {Len(FrameAfter(pcs[f]).rows[k].scores) :
        k \in 1..Len(FrameAfter(pcs[f]).rows)}

\* C18 as stated: the number of candidate lags scored per row is
\* ceil(window/period + 1) * 2, whatever the ratio window/period.
LagCountCeil ==
    AtTwapsUniv3 => \A f \in 1..Len(pcs) : LagsScored(f) \subseteq {CeilLags}

\* C18, amended: the number of candidate lags scored per row is the integer
\* part of (window/period + 1) * 2; it is ceil(window/period + 1) * 2 when
\* period divides window and less than that otherwise.
LagCountFloors ==
    AtTwapsUniv3 =>
        /\ \A f \in 1..Len(pcs) : LagsScored(f) \subseteq {FloorLags}
        /\ IF params.window % params.period = 0 THEN FloorLags = CeilLags
           ELSE FloorLags < CeilLags

\* rows are scored for a window that is no multiple of the period
LagCountFraction ==
    /\ AtTwapsUniv3
    /\ params.window % params.period # 0
    /\ \E f \in 1..Len(pcs) : LagsScored(f) = {FloorLags}

\* the seconds between the first and the last data point of the quote
SpanOf(frames) ==
    frames[1].rows[Len(frames[1].rows)]._time - frames[1].rows[1]._time

\* C19 as stated: in either script a quote whose span is shorter than
\* points - 1 days is skipped, so main never comes to compute the TWAPs of
\* such a quote.
SpanGuardSkips ==
    pc = "twaps" => SpanOf(pcs) >= (params.points - 1) * 86400

\* lag*: the smallest lag of the minimal score, for a row with full history
BestLag(rows, r) ==
    CHOOSE L \in 1..MaxLag :
        \A i \in 1..MaxLag :
            /\ Score(rows, r, L, params.window) <= Score(rows, r, i, params.window)
            /\ i < L => Score(rows, r, L, params.window)
                          < Score(rows, r, i, params.window)

\* elapsed(lag*) of the row is positive and within the tolerance of window
HasValidWindow(rows, r) ==
    LET e == Elapsed(rows, r, BestLag(rows, r))
    IN  /\ e > 0
        /\ params.window - params.tolerance <= e
        /\ e <= params.window + params.tolerance

\* C20 as stated: every row with at least max_lag preceding rows whose best
\* lag has a valid window gives exactly one sample, with delta_time =
\* elapsed(lag*) and delta_value = value[row] - value[row - lag*] of the
\* series, and get_twap does not raise.
DynamicComplete ==
    AtTwapsUniv3 =>
        \A f \in 1..Len(pcs) :
            LET rows == pcs[f].rows
                res  == get_twap_univ3(pcs[f], params)
            IN  \A r \in 1..Len(rows) :
                    (FullHistory(r) /\ HasValidWindow(rows, r)) =>
                        LET L == BestLag(rows, r)
                            dv == rows[r]._value - rows[r - L]._value
                        IN  /\ res.err = ""
                            /\ Cardinality(SamplesOfRow(res.twaps, rows, r)) = 1
                            /\ \A k \in SamplesOfRow(res.twaps, rows, r) :
                                 /\ res.twaps[k].window = Elapsed(rows, r, L)
                                 /\ res.twaps[k].twap.d = Elapsed(rows, r, L)
                                 /\ res.twaps[k].twap.n
                                      = (IF pcs[f]._field = "tick_cumulative1"
                                         THEN -dv ELSE dv)

-----------------------------------------------------------------------------
(* Properties of the retry loops (influx_univ3_1m.py) *)

\* every retry loop of the pass in progress: find_start's, get_b_t's of each
\* call and the write's of each item
RetryLoops ==
    (IF ipc = "idle" THEN {} ELSE {fs})
        \cup {reads[c].loop : c \in 1..Len(reads)}
        \cup {wrs[c] : c \in 1..Len(wrs)}

\* C14 as stated: a loop whose every call fails gives up after its fifth
\* call.
RetryFiveCalls == \A l \in RetryLoops : Unbound(l) => l.tries = 5

\* C14: get_b_t, find_start and the write of index_pair each make at most
\* four calls; the sleep after the k-th failed call is k * 10 seconds; a
\* successful call is the last call of its loop.
RetryBounded ==
    \A l \in RetryLoops :
        /\ l.tries <= 4
        /\ l.waits = [k \in 1..Len(l.waits) |-> k * 10]
        /\ l.tries = Len(l.waits) + (IF l.success THEN 1 ELSE 0)
        /\ Unbound(l) => l.tries = 4

\* a write gave up after four calls and sleeps of 10, 20, 30 and 40 seconds
\* while get_b_t of the same call succeeded on its third call
RetryGaveUp ==
    \E c \in 1..Len(wrs) :
        /\ Unbound(wrs[c])
        /\ wrs[c].tries = 4
        /\ wrs[c].waits = <<10, 20, 30, 40>>
        /\ reads[c].loop.success
        /\ reads[c].loop.waits = <<10, 20>>

\* C15 as stated: a retry loop that gives up never ends the process with an
\* uncaught exception.
ExhaustionNeverRaises ==
    ipc = "raised" =>
        /\ ~Unbound(fs)
        /\ item \in 1..Len(reads) => ~Unbound(reads[item].loop)

-----------------------------------------------------------------------------
(* Properties of index_pair under the thread pool (influx_univ3_1m.py) *)

\* the calls of the quote in progress whose point has been written
WrittenCalls == {written[i].call : i \in 1..Len(written)}

\* C21: the points of a quote are written in the order of the calls list
\* whatever order the reads end in: the calls of the written points ascend
\* strictly (so no call is written twice), they are exactly the calls whose
\* write succeeded, and the write of an item makes its first attempt only
\* after the read of that item and of every item before it has returned and
\* the write loop of every item before it has ended.
OrderedIngestion ==
    /\ \A i, j \in 1..Len(written) :
        i < j => written[i].call < written[j].call
    /\ \A i \in 1..Len(written) : written[i].id = quotes[iq].id
    /\ WrittenCalls = {c \in 1..Len(wrs) : wrs[c].success}
    /\ \A c \in 1..Len(wrs) :
        wrs[c].tries > 0 =>
            /\ reads[c].observe = "ok"
            /\ \A b \in 1..(c - 1) :
                reads[b].observe = "ok" /\ ~Looping(wrs[b])

\* the read of the second call returned while the first was still retrying,
\* the write of the first item took more than one attempt, and both points
\* are written, the first call's first
ReadsEndedOutOfOrder ==
    /\ Len(written) = 2
    /\ written[1].call = 1
    /\ written[2].call = 2
    /\ reads[2].early
    /\ reads[1].loop.tries > reads[2].loop.tries
    /\ wrs[1].tries > 1

=============================================================================
